---- MODULE Spec2Model ----
(***************************************************************************)
(* Availability-to-time-slot computation and booking conflict validation   *)
(* of book-savvy-studio: the get-available-slots edge function, the        *)
(* create-checkout-session edge function, the stripe-webhook edge function *)
(* and the client's cancel action, over the bookings / availability /      *)
(* time_off / services tables.                                             *)
(*                                                                         *)
(* Instants are minutes since Sunday 00:00 of the modelled week; the edge  *)
(* runtime's local time zone is UTC, so local day and time-of-day are      *)
(* those of the instant.  Text values (the database `time` column, the     *)
(* 'HH:MM' rendering of toTimeString) are sequences of character codes and *)
(* are compared as JavaScript compares strings.                            *)
(***************************************************************************)
EXTENDS Integers, Sequences, FiniteSets, TLC

VARIABLES
    now,            \* the clock read by `new Date()`
    price,          \* the price column of public.services, by service id
    availability,   \* rows of public.availability
    time_off,       \* rows of public.time_off
    bookings,       \* rows of public.bookings, indexed by id 1..Len
    sessions,       \* Stripe checkout sessions created so far (booking ids)
    req,            \* the create-checkout-session requests in flight
    started,        \* number of create-checkout-session requests received
    response,       \* the last get-available-slots response
    overlapTest,    \* one evaluation of the generator's overlap test
    clients,        \* rows of public.clients, by (creator_id, email)
    notifications_sent, \* rows of public.notifications_sent
    emails,         \* emails handed to Resend, counted by (booking, type)
    inv,            \* the booking-followup invocations in flight
    invocations     \* number of booking-followup invocations received

\* The state of booking-followup and of the table it writes.
followupVars == <<notifications_sent, emails, inv, invocations>>

vars == <<now, price, availability, time_off, bookings, sessions, req, started, response,
         overlapTest, clients, notifications_sent, emails, inv, invocations>>

(***************************************************************************)
(* Program constants                                                       *)
(***************************************************************************)
MINIMUM_LEAD_TIME_HOURS == 2
BUFFER_MINUTES == 15

(***************************************************************************)
(* Bounds of the model                                                     *)
(***************************************************************************)
MaxSnapshotBookings == 1    \* booking rows in a snapshot of the slot generator
MaxTimeOff == 1             \* time_off rows of the creator
MaxRequests == 2            \* create-checkout-session requests received
MaxTicks == 1               \* clock advances during the booking flow

MinutesPerDay == 24 * 60
NULL == "null"

\* The instant of hour h, minute m of day d (0 = Sunday, 1 = Monday).
Instant(d, h, m) == d * MinutesPerDay + h * 60 + m

(***************************************************************************)
(* Text and date conversions                                               *)
(***************************************************************************)
\* Two decimal digits as character codes ('0' = 48).
TwoDigits(n) == <<48 + (n \div 10), 48 + (n % 10)>>

\* A value of a `time` column as the database returns it: 'HH:MM:SS'
\* (':' = 58).  The dashboard stores whole minutes.
TimeText(tod) ==
    TwoDigits(tod \div 60) \o <<58>> \o TwoDigits(tod % 60) \o <<58>> \o TwoDigits(0)

\* bookingStart.toTimeString().slice(0, 5): the local time as 'HH:MM'.
toTimeStringHHMM(t) ==
    LET tod == t % MinutesPerDay
    IN  TwoDigits(tod \div 60) \o <<58>> \o TwoDigits(tod % 60)

\* JavaScript's a < b on strings: the first differing code unit decides, a
\* proper prefix is smaller.
RECURSIVE StrLess(_, _)
StrLess(a, b) ==
    IF b = <<>> THEN FALSE
    ELSE IF a = <<>> THEN TRUE
    ELSE IF Head(a) # Head(b) THEN Head(a) < Head(b)
    ELSE StrLess(Tail(a), Tail(b))

\* JavaScript's a >= b on strings.
StrGreaterEq(a, b) == ~StrLess(a, b)

\* text.split(":").map(Number), of which the code takes the first two
\* elements: the hour and the minute.
splitHourMinute(text) ==
    <<(text[1] - 48) * 10 + (text[2] - 48), (text[4] - 48) * 10 + (text[5] - 48)>>

\* Date.prototype.getDay(): 0 = Sunday ... 6 = Saturday.
getDay(t) == (t \div MinutesPerDay) % 7

\* new Date("YYYY-MM-DD"): midnight of calendar day d.
DateOf(d) == d * MinutesPerDay

(***************************************************************************)
(* Static tables                                                           *)
(***************************************************************************)
\* public.profiles: slug -> id.
Profiles == [studio |-> "c1", rival |-> "c2"]

\* public.services as first stored; the price column can be edited later and
\* is the variable `price`.
Services ==
    [s30  |-> [creator_id |-> "c1", duration |-> 30, price |-> 40, active |-> TRUE],
     s60  |-> [creator_id |-> "c1", duration |-> 60, price |-> 70, active |-> TRUE],
     sOff |-> [creator_id |-> "c1", duration |-> 30, price |-> 40, active |-> FALSE],
     sRiv |-> [creator_id |-> "c2", duration |-> 30, price |-> 50, active |-> TRUE]]
ServiceIds == DOMAIN Services

\* What .single() yields when no row matches.
NoRow == [data |-> NULL]

\* The ids Stripe gives its objects: the checkout session ("cs") and the
\* payment intent ("pi") made for the booking with id n; NoId is the null
\* of a column that holds no id yet.
NoId == [none |-> TRUE]
StripeId(kind, n) == [kind |-> kind, of |-> n]

\* .from("profiles").select("id").eq("slug", creatorSlug).single()
profileOf(creatorSlug) ==
    IF creatorSlug \in DOMAIN Profiles THEN Profiles[creatorSlug] ELSE NULL

\* .from("services").select(...).eq("id", serviceId).eq("creator_id", id).single()
\* The edge functions use the service-role key, so row-level security does
\* not hide inactive services and the query has no filter on `active`.
serviceOf(serviceId, creatorId) ==
    IF serviceId \in ServiceIds /\ Services[serviceId].creator_id = creatorId
    THEN [Services[serviceId] EXCEPT !.price = price[serviceId]] ELSE NoRow

\* The ids of the rows of the bookings table.
BookingIds == 1..Len(bookings)

\* A booking counts against availability: the filter of both bookings queries.
isOccupying_ignoringRefund(b) == b.status \in {"pending", "confirmed"}
isOccupying(b) ==
    b.status \in {"pending", "confirmed"} /\ b.payment_status # "refunded"

\* .from("availability").eq("creator_id").eq("day_of_week").eq("is_active", true)
availabilityFor(creatorId, dayOfWeek) ==
    {a \in availability :
        a.creator_id = creatorId /\ a.day_of_week = dayOfWeek /\ a.is_active}

(***************************************************************************)
(* get-available-slots (the Slot Generator)                                *)
(***************************************************************************)
\* The generator's overlap test of a slot [currentSlot, slotEnd) against
\* [otherStart, otherEnd): three clauses.  (The _closed variant closes the
\* second clause at the other interval's start.)
slotOverlaps_closed(currentSlot, slotEnd, otherStart, otherEnd) ==
    \/ (currentSlot >= otherStart /\ currentSlot < otherEnd)
    \/ (slotEnd >= otherStart /\ slotEnd <= otherEnd)
    \/ (currentSlot <= otherStart /\ slotEnd >= otherEnd)
slotOverlaps(currentSlot, slotEnd, otherStart, otherEnd) ==
    \/ (currentSlot >= otherStart /\ currentSlot < otherEnd)
    \/ (slotEnd > otherStart /\ slotEnd <= otherEnd)
    \/ (currentSlot <= otherStart /\ slotEnd >= otherEnd)

\* startOfDay / endOfDay of the target date: 00:00:00.000 and 23:59:59.999,
\* the latter being the day's last whole minute at the model's resolution.
startOfDayOf(targetDate) == targetDate
endOfDayOf(targetDate) == targetDate + MinutesPerDay - 1

\* The bookings query: the creator's occupying bookings that start on the
\* target date.
slotBookings(creatorId, targetDate) ==
    {i \in BookingIds :
        /\ bookings[i].creator_id = creatorId
        /\ bookings[i].booking_date >= startOfDayOf(targetDate)
        /\ bookings[i].booking_date <= endOfDayOf(targetDate)
        /\ isOccupying(bookings[i])}

\* The time_off query: the creator's periods that touch the target date.
slotTimeOff(creatorId, targetDate) ==
    {p \in time_off :
        /\ p.creator_id = creatorId
        /\ p.start_datetime <= endOfDayOf(targetDate)
        /\ p.end_datetime >= startOfDayOf(targetDate)}

\* hasConflict: the end of an existing booking is computed from the duration
\* of the service being requested.  (The _doubleBuffer variant adds the
\* buffer twice.)
slotHasConflict_doubleBuffer(currentSlot, slotEnd, service, bks) ==
    \E i \in bks :
        LET bookingStart == bookings[i].booking_date
            bookingEnd == bookingStart + (service.duration + BUFFER_MINUTES + BUFFER_MINUTES)
        IN  slotOverlaps(currentSlot, slotEnd, bookingStart, bookingEnd)
slotHasConflict(currentSlot, slotEnd, service, bks) ==
    \E i \in bks :
        LET bookingStart == bookings[i].booking_date
            bookingEnd == bookingStart + (service.duration + BUFFER_MINUTES)
        IN  slotOverlaps(currentSlot, slotEnd, bookingStart, bookingEnd)

\* inTimeOff.
slotInTimeOff(currentSlot, slotEnd, toff) ==
    \E period \in toff :
        slotOverlaps(currentSlot, slotEnd, period.start_datetime, period.end_datetime)

\* The lead-time test of a candidate: if (slotEnd <= minStartTime) continue.
slotTooSoon_strict(slotEnd, minStartTime) == slotEnd < minStartTime
slotTooSoon(slotEnd, minStartTime) == slotEnd <= minStartTime

\* slotEnd: the candidate's end is its start plus the service's duration.
slotEndOf_withBuffer(currentSlot, service) ==
    currentSlot + service.duration + BUFFER_MINUTES
slotEndOf(currentSlot, service) == currentSlot + service.duration

\* slotDuration: the stride from one candidate to the next.
slotDurationOf_noBuffer(service) == service.duration
slotDurationOf(service) == service.duration + BUFFER_MINUTES

\* The while loop over one availability row.
RECURSIVE walkSlots(_, _, _, _, _, _)
walkSlots(currentSlot, endTime, service, minStartTime, bks, toff) ==
    IF ~(currentSlot < endTime) THEN <<>>
    ELSE
        LET slotEnd == slotEndOf(currentSlot, service)
            slotDuration == slotDurationOf(service)
            rest == walkSlots(currentSlot + slotDuration, endTime, service,
                              minStartTime, bks, toff)
        IN  IF slotTooSoon(slotEnd, minStartTime) THEN rest
            ELSE IF ~slotHasConflict(currentSlot, slotEnd, service, bks)
                    /\ ~slotInTimeOff(currentSlot, slotEnd, toff)
                 THEN <<[start |-> currentSlot, end |-> slotEnd]>> \o rest
                 ELSE rest

\* The body of `for (const avail of availability)` for one row.
slotsOfRule(avail, targetDate, service, minStartTime, bks, toff) ==
    LET startHM == splitHourMinute(avail.start_time)
        endHM == splitHourMinute(avail.end_time)
        currentSlot == targetDate + startHM[1] * 60 + startHM[2]
        endTime == targetDate + endHM[1] * 60 + endHM[2]
    IN  walkSlots(currentSlot, endTime, service, minStartTime, bks, toff)

\* The for loop: the rows in the order the query returned them.
RECURSIVE slotsOfRules(_, _, _, _, _, _)
slotsOfRules(rows, targetDate, service, minStartTime, bks, toff) ==
    IF rows = {} THEN <<>>
    ELSE
        LET avail == CHOOSE a \in rows : TRUE
        IN  slotsOfRule(avail, targetDate, service, minStartTime, bks, toff)
            \o slotsOfRules(rows \ {avail}, targetDate, service, minStartTime, bks, toff)

\* The handler: the response to { creatorSlug, serviceId, date }.
getAvailableSlots(creatorSlug, serviceId, date) ==
    LET profile == profileOf(creatorSlug)
        service == serviceOf(serviceId, profile)
        targetDate == DateOf(date)
        dayOfWeek == getDay(targetDate)
        minStartTime == now + MINIMUM_LEAD_TIME_HOURS * 60
        rows == availabilityFor(profile, dayOfWeek)
    IN  IF profile = NULL
        THEN [status |-> 500, error |-> "Creator not found", timeSlots |-> <<>>]
        ELSE IF service = NoRow
        THEN [status |-> 500, error |-> "Service not found", timeSlots |-> <<>>]
        ELSE IF rows = {}
        THEN [status |-> 200, error |-> NULL, timeSlots |-> <<>>]
        ELSE [status |-> 200, error |-> NULL,
              timeSlots |-> slotsOfRules(rows, targetDate, service, minStartTime,
                                         slotBookings(profile, targetDate),
                                         slotTimeOff(profile, targetDate))]

\* One get-available-slots request, answered from the current tables.
GetAvailableSlots(creatorSlug, serviceId, date) ==
    /\ response' = [creatorSlug |-> creatorSlug, serviceId |-> serviceId,
                    date |-> date, at |-> now,
                    result |-> getAvailableSlots(creatorSlug, serviceId, date)]
    /\ UNCHANGED <<followupVars, clients, overlapTest, price, now, availability, time_off, bookings, sessions, req, started>>


(***************************************************************************)
(* create-checkout-session (the Booking Conflict Validator)                *)
(***************************************************************************)
\* if (bookingStart <= minStartTime) throw ...
tooSoon_strict(bookingStart) == bookingStart < now + MINIMUM_LEAD_TIME_HOURS * 60
tooSoon(bookingStart) == bookingStart <= now + MINIMUM_LEAD_TIME_HOURS * 60

\* isWithinAvailability: the 'HH:MM' text of the proposed start compared, as
\* strings, with the start_time / end_time values of the rows.
isWithinAvailability(rows, timeString) ==
    \E slot \in rows :
        StrGreaterEq(timeString, slot.start_time) /\ StrLess(timeString, slot.end_time)

\* bookingEnd: the proposed end includes the buffer.
bookingEndOf(bookingStart, service) ==
    bookingStart + (service.duration + BUFFER_MINUTES)

\* The conflicts query: every occupying booking of the creator.
conflictsOf(creatorId) ==
    {i \in BookingIds : bookings[i].creator_id = creatorId /\ isOccupying(bookings[i])}

\* hasConflict: the end of an existing booking is computed from the duration
\* of the service being requested.  (The _openStart variant misses an
\* existing booking with the same start.)
bookingHasConflict_openStart(bookingStart, bookingEnd, service, conflicts) ==
    \E i \in conflicts :
        LET existingStart == bookings[i].booking_date
            existingEnd == existingStart + (service.duration + BUFFER_MINUTES)
        IN  bookingStart < existingEnd /\ bookingStart > existingStart
bookingHasConflict(bookingStart, bookingEnd, service, conflicts) ==
    \E i \in conflicts :
        LET existingStart == bookings[i].booking_date
            existingEnd == existingStart + (service.duration + BUFFER_MINUTES)
        IN  bookingStart < existingEnd /\ bookingEnd > existingStart

\* The time_off query: rows with start <= bookingEnd and end >= bookingStart.
bookingTimeOff(creatorId, bookingStart, bookingEnd) ==
    {p \in time_off :
        /\ p.creator_id = creatorId
        /\ p.start_datetime <= bookingEnd
        /\ p.end_datetime >= bookingStart}

\* The checks up to the availability check: the error thrown, or NULL.
firstChecks(r) ==
    LET profile == profileOf(r.creatorSlug)
        service == serviceOf(r.serviceId, profile)
        rows == availabilityFor(profile, getDay(r.bookingStart))
    IN  IF r.clientEmail = "" THEN "Missing required fields"
        ELSE IF profile = NULL THEN "Creator not found"
        ELSE IF service = NoRow THEN "Service not found"
        ELSE IF tooSoon(r.bookingStart) THEN "Bookings must be made in advance"
        ELSE IF rows = {} THEN "Creator is not available on this day"
        ELSE IF ~isWithinAvailability(rows, toTimeStringHHMM(r.bookingStart))
        THEN "Selected time is outside availability hours"
        ELSE NULL

\* The conflict check of a request that passed firstChecks.
conflictCheck(r) ==
    LET profile == profileOf(r.creatorSlug)
        service == serviceOf(r.serviceId, profile)
    IN  IF bookingHasConflict(r.bookingStart, bookingEndOf(r.bookingStart, service),
                              service, conflictsOf(profile))
        THEN "This time slot is no longer available"
        ELSE NULL

\* The time-off check of a request that passed firstChecks.
timeOffCheck(r) ==
    LET profile == profileOf(r.creatorSlug)
        service == serviceOf(r.serviceId, profile)
    IN  IF bookingTimeOff(profile, r.bookingStart,
                          bookingEndOf(r.bookingStart, service)) # {}
        THEN "Creator is not available during this time"
        ELSE NULL

\* All the checks run against one snapshot: the error thrown, or NULL.
validate(r) ==
    IF firstChecks(r) # NULL THEN firstChecks(r)
    ELSE IF conflictCheck(r) # NULL THEN conflictCheck(r)
    ELSE timeOffCheck(r)

\* The row inserted for a request: price_at_booking is the price of the
\* service row the request read before its checks.
newBooking_currentPrice(r) ==
    [service_id |-> r.serviceId,
     creator_id |-> profileOf(r.creatorSlug),
     booking_date |-> r.bookingStart,
     client_email |-> r.clientEmail,
     status |-> "pending",
     payment_status |-> "pending",
     price_at_booking |-> price[r.serviceId],
     stripe_checkout_session_id |-> NoId,
     stripe_payment_intent_id |-> NoId]
newBooking(r) ==
    [service_id |-> r.serviceId,
     creator_id |-> profileOf(r.creatorSlug),
     booking_date |-> r.bookingStart,
     client_email |-> r.clientEmail,
     status |-> "pending",
     payment_status |-> "pending",
     price_at_booking |-> r.price,
     stripe_checkout_session_id |-> NoId,
     stripe_payment_intent_id |-> NoId]

\* The spec's error taxonomy for the messages the handler throws.
errorKind(message) ==
    CASE message \in {"Creator not found", "Service not found"} -> "NotFound"
      [] message = "Bookings must be made in advance" -> "LeadTimeViolation"
      [] message \in {"Creator is not available on this day",
                      "Selected time is outside availability hours"} -> "OutsideAvailability"
      [] message \in {"This time slot is no longer available",
                      "Creator is not available during this time"} -> "Conflict"
      [] OTHER -> message


(***************************************************************************)
(* The clients table and its trigger                                       *)
(***************************************************************************)
\* public.clients has one row for each (creator_id, email); the model keeps
\* the two totals of a row.  No row exists before the first confirmed booking.
NoClients == [k \in {} |-> [total_bookings |-> 0, total_spent |-> 0]]

clientKey(row) == <<row.creator_id, row.client_email>>

\* total_bookings of the clients row a booking row belongs to (0: no row yet).
totalBookingsOf(cl, row) ==
    IF clientKey(row) \in DOMAIN cl THEN cl[clientKey(row)].total_bookings ELSE 0

\* update_client_from_booking() for one updated row, NEW in the function's
\* text: INSERT ... ON CONFLICT (creator_id, email) DO UPDATE.
update_client_from_booking(cl, newRow) ==
    IF newRow.status = "confirmed" /\ newRow.payment_status = "paid"
    THEN [k \in DOMAIN cl \cup {clientKey(newRow)} |->
            IF k # clientKey(newRow) THEN cl[k]
            ELSE IF k \in DOMAIN cl
                 THEN [total_bookings |-> cl[k].total_bookings + 1,
                       total_spent |-> cl[k].total_spent + newRow.price_at_booking]
                 ELSE [total_bookings |-> 1,
                       total_spent |-> newRow.price_at_booking]]
    ELSE cl

\* The trigger update_client_on_booking_paid: AFTER UPDATE ON bookings FOR
\* EACH ROW.  ids are the rows an UPDATE statement matched and rows is the
\* table after the statement.
RECURSIVE update_client_on_booking_paid(_, _, _)
update_client_on_booking_paid(cl, ids, rows) ==
    IF ids = {} THEN cl
    ELSE LET i == CHOOSE x \in ids : TRUE
         IN  update_client_on_booking_paid(update_client_from_booking(cl, rows[i]),
                                           ids \ {i}, rows)

\* Updates that may repeat without end (an event delivered again, the contact
\* form saved again) stop once a client's total_bookings has reached this.
MaxClientUpdates == 3
mayRepeat(row) == totalBookingsOf(clients, row) < MaxClientUpdates

(***************************************************************************)
(* booking-followup: its invocations before any was received               *)
(***************************************************************************)
Invs == {"i1", "i2"}    \* invocations that may run concurrently

IdleInv == [pc |-> "idle", todo |-> <<>>, type |-> "followup"]

\* No email was handed to Resend yet.
NoEmails == [k \in {} |-> 0]

NoFollowup ==
    /\ notifications_sent = {}
    /\ emails = NoEmails
    /\ inv = [i \in Invs |-> IdleInv]
    /\ invocations = 0


(***************************************************************************)
(* The booking flow: requests, payment events, cancellation                *)
(***************************************************************************)
Procs == {"h1", "h2"}   \* request handlers that may run concurrently

IdleReq ==
    [pc |-> "idle", creatorSlug |-> NULL, serviceId |-> NULL, bookingStart |-> 0,
     clientEmail |-> NULL, price |-> 0, bookingId |-> 0, error |-> NULL]

\* The request bodies the model submits: the 30-minute service at every
\* modelled start (the rule's start and end among them), the 60-minute and the
\* inactive service at some, and one body for each way of being malformed.
BookingStarts ==
    {Instant(1, 9, 0), Instant(1, 9, 15), Instant(1, 10, 0), Instant(1, 10, 30),
     Instant(1, 10, 45)}

Body(slug, serviceId, bookingStart, email) ==
    [creatorSlug |-> slug, serviceId |-> serviceId, bookingStart |-> bookingStart,
     clientEmail |-> email]

RequestBodies ==
    {Body("studio", "s30", t, "ann@example.com") : t \in BookingStarts}
    \cup
    {Body("studio", "s60", Instant(1, 9, 15), "ann@example.com"),
     Body("studio", "s60", Instant(1, 10, 0), "ann@example.com"),
     Body("studio", "sOff", Instant(1, 9, 15), "ann@example.com"),
     Body("studio", "sRiv", Instant(1, 9, 15), "ann@example.com"),
     Body("nobody", "s30", Instant(1, 9, 15), "ann@example.com"),
     Body("studio", "s30", Instant(1, 9, 15), "")}

\* A handler receives a request and runs the checks that read the static
\* tables and the clock: required fields, creator, service, lead time,
\* weekly availability.
CB_Receive(p, body) ==
    /\ req[p].pc \in {"idle", "done"}
    /\ started < MaxRequests
    /\ LET r == [IdleReq EXCEPT !.creatorSlug = body.creatorSlug,
                                !.serviceId = body.serviceId,
                                !.bookingStart = body.bookingStart,
                                !.clientEmail = body.clientEmail]
           e == firstChecks(r)
           service == serviceOf(r.serviceId, profileOf(r.creatorSlug))
       IN  req' = [req EXCEPT ![p] =
                     IF e # NULL THEN [r EXCEPT !.pc = "done", !.error = e]
                     ELSE [r EXCEPT !.pc = "conflicts", !.price = service.price]]
    /\ started' = started + 1
    /\ UNCHANGED <<followupVars, clients, overlapTest, price, now, availability, time_off, bookings, sessions, response>>

\* The handler reads the occupying bookings and tests them for overlap.
CB_CheckConflicts(p) ==
    /\ req[p].pc = "conflicts"
    /\ LET e == conflictCheck(req[p])
       IN  req' = [req EXCEPT ![p] =
                     IF e # NULL THEN [@ EXCEPT !.pc = "done", !.error = e]
                     ELSE [@ EXCEPT !.pc = "timeoff"]]
    /\ UNCHANGED <<followupVars, clients, overlapTest, price, now, availability, time_off, bookings, sessions, started, response>>

\* The handler reads the time_off rows around the proposed booking.  (The
\* _insertingFirst variant writes the booking row before it reports.)
CB_CheckTimeOff_insertingFirst(p) ==
    /\ req[p].pc = "timeoff"
    /\ LET e == timeOffCheck(req[p])
       IN  req' = [req EXCEPT ![p] =
                     IF e # NULL THEN [@ EXCEPT !.pc = "done", !.error = e]
                     ELSE [@ EXCEPT !.pc = "insert"]]
    /\ bookings' = Append(bookings, newBooking(req[p]))
    /\ sessions' = Append(sessions, "none")
    /\ UNCHANGED <<followupVars, clients, overlapTest, price, now, availability, time_off, started, response>>
CB_CheckTimeOff(p) ==
    /\ req[p].pc = "timeoff"
    /\ LET e == timeOffCheck(req[p])
       IN  req' = [req EXCEPT ![p] =
                     IF e # NULL THEN [@ EXCEPT !.pc = "done", !.error = e]
                     ELSE [@ EXCEPT !.pc = "insert"]]
    /\ UNCHANGED <<followupVars, clients, overlapTest, price, now, availability, time_off, bookings, sessions, started, response>>

\* The handler inserts the booking row.
CB_Insert(p) ==
    /\ req[p].pc = "insert"
    /\ bookings' = Append(bookings, newBooking(req[p]))
    /\ sessions' = Append(sessions, "none")
    /\ req' = [req EXCEPT ![p] = [@ EXCEPT !.pc = "stripe",
                                           !.bookingId = Len(bookings) + 1]]
    /\ UNCHANGED <<followupVars, clients, overlapTest, price, now, availability, time_off, started, response>>

\* stripe.checkout.sessions.create succeeds.
CB_StripeCreate(p) ==
    /\ req[p].pc = "stripe"
    /\ sessions' = [sessions EXCEPT ![req[p].bookingId] = "open"]
    /\ req' = [req EXCEPT ![p] = [@ EXCEPT !.pc = "attach"]]
    /\ UNCHANGED <<followupVars, clients, overlapTest, price, now, availability, time_off, bookings, started, response>>

\* stripe.checkout.sessions.create throws: the catch block answers 500.
CB_StripeFail_cancelling(p) ==
    /\ req[p].pc = "stripe"
    /\ req' = [req EXCEPT ![p] = [@ EXCEPT !.pc = "done", !.error = "Stripe error"]]
    /\ bookings' = [bookings EXCEPT ![req[p].bookingId].status = "cancelled",
                                    ![req[p].bookingId].payment_status = "unpaid"]
    /\ UNCHANGED <<followupVars, clients, overlapTest, price, now, availability, time_off, sessions, started, response>>
CB_StripeFail(p) ==
    /\ req[p].pc = "stripe"
    /\ req' = [req EXCEPT ![p] = [@ EXCEPT !.pc = "done", !.error = "Stripe error"]]
    /\ UNCHANGED <<followupVars, clients, overlapTest, price, now, availability, time_off, bookings, sessions, started, response>>

\* The handler stores session.id and session.payment_intent on the row and
\* answers 200.  session.payment_intent is the id of the session's payment
\* intent when Stripe made one together with the session, and null when
\* Stripe makes it only once the customer pays.
CB_Attach(p) ==
    /\ req[p].pc = "attach"
    /\ \E withIntent \in BOOLEAN :
          bookings' = [bookings EXCEPT
                         ![req[p].bookingId].stripe_checkout_session_id =
                             StripeId("cs", req[p].bookingId),
                         ![req[p].bookingId].stripe_payment_intent_id =
                             IF withIntent THEN StripeId("pi", req[p].bookingId)
                             ELSE NoId]
    /\ clients' = update_client_on_booking_paid(clients, {req[p].bookingId}, bookings')
    /\ req' = [req EXCEPT ![p] = [@ EXCEPT !.pc = "done"]]
    /\ UNCHANGED <<followupVars, overlapTest, price, now, availability, time_off, sessions, started, response>>

\* stripe-webhook, checkout.session.completed (delivered at least once).
\* A session is "open" once created, "failed" after a declined payment
\* attempt (the customer may try again), then "completed" or "expired".
WebhookCompleted(b) ==
    /\ sessions[b] \in {"open", "failed", "completed"}
    /\ sessions[b] = "completed" => mayRepeat(bookings[b])
    /\ sessions' = [sessions EXCEPT ![b] = "completed"]
    /\ bookings' = [bookings EXCEPT ![b].payment_status = "paid",
                                    ![b].status = "confirmed"]
    /\ clients' = update_client_on_booking_paid(clients, {b}, bookings')
    /\ UNCHANGED <<followupVars, overlapTest, price, now, availability, time_off, req, started, response>>

\* stripe-webhook, checkout.session.expired (delivered at least once).
WebhookExpired_confirming(b) ==
    /\ sessions[b] \in {"open", "failed", "expired"}
    /\ sessions' = [sessions EXCEPT ![b] = "expired"]
    /\ bookings' = [bookings EXCEPT ![b].payment_status = "paid",
                                    ![b].status = "confirmed"]
    /\ clients' = update_client_on_booking_paid(clients, {b}, bookings')
    /\ UNCHANGED <<followupVars, overlapTest, price, now, availability, time_off, req, started, response>>
WebhookExpired(b) ==
    /\ sessions[b] \in {"open", "failed", "expired"}
    /\ sessions' = [sessions EXCEPT ![b] = "expired"]
    /\ bookings' = [bookings EXCEPT ![b].payment_status = "unpaid",
                                    ![b].status = "cancelled"]
    /\ clients' = update_client_on_booking_paid(clients, {b}, bookings')
    /\ UNCHANGED <<followupVars, overlapTest, price, now, availability, time_off, req, started, response>>

\* stripe-webhook, payment_intent.payment_failed: a payment attempt on the
\* checkout page of booking b's session was declined.  The customer has the
\* page's URL from the answer of the request, sent after the ids were stored.
\* The handler looks the booking up by the event's payment intent id, which
\* only row b can hold, and cancels the row it finds.
WebhookPaymentFailed(b) ==
    /\ sessions[b] \in {"open", "failed"}
    /\ bookings[b].stripe_checkout_session_id # NoId
    /\ sessions' = [sessions EXCEPT ![b] = "failed"]
    /\ LET found == {i \in BookingIds :
                       bookings[i].stripe_payment_intent_id = StripeId("pi", b)}
       IN  /\ bookings' = [i \in BookingIds |->
                          IF i \in found
                          THEN [bookings[i] EXCEPT !.payment_status = "unpaid",
                                                   !.status = "cancelled"]
                          ELSE bookings[i]]
           /\ clients' = update_client_on_booking_paid(clients, found, bookings')
    /\ UNCHANGED <<followupVars, overlapTest, price, now, availability, time_off, req, started, response>>

\* bookings_status_check after the last migration.
StatusCheck == {"pending", "confirmed", "cancelled", "completed"}

\* BookingsTab / CalendarTab handleStatusUpdate: the creator's buttons write
\* 'accepted' or 'declined' on a pending booking and 'completed' on an
\* accepted one; the database rejects a status outside bookings_status_check
\* and the handler then only shows an error.
handleStatusUpdate(b, newStatus) ==
    /\ \/ bookings[b].status = "pending" /\ newStatus \in {"accepted", "declined"}
       \/ bookings[b].status = "accepted" /\ newStatus = "completed"
    /\ bookings' = IF newStatus \in StatusCheck
                   THEN [bookings EXCEPT ![b].status = newStatus]
                   ELSE bookings
    /\ clients' = IF newStatus \in StatusCheck
                  THEN update_client_on_booking_paid(clients, {b}, bookings')
                  ELSE clients
    /\ UNCHANGED <<followupVars, overlapTest, price, now, availability, time_off, sessions, req, started, response>>

\* ClientDashboard.handleCancelBooking, offered on upcoming bookings that are
\* neither paid nor cancelled.  The update is modelled as issued; the
\* database applies it when the row-level policy admits the signed-in user.
handleCancelBooking(b) ==
    /\ bookings[b].booking_date > now
    /\ bookings[b].status # "cancelled"
    /\ bookings[b].payment_status # "paid"
    /\ bookings' = [bookings EXCEPT ![b].status = "cancelled"]
    /\ clients' = update_client_on_booking_paid(clients, {b}, bookings')
    /\ UNCHANGED <<followupVars, overlapTest, price, now, availability, time_off, sessions, req, started, response>>

\* Time passes, a quarter of an hour at a time, from Monday 06:45.
FlowStart == Instant(1, 6, 45)
Tick ==
    /\ now < FlowStart + MaxTicks * (60 \div 4)
    /\ now' = now + (60 \div 4)
    /\ UNCHANGED <<followupVars, clients, overlapTest, price, availability, time_off, bookings, sessions, req, started, response>>

\* A row of public.availability / public.time_off.
Rule(creatorId, day, startTod, endTod, active) ==
    [creator_id |-> creatorId, day_of_week |-> day, start_time |-> TimeText(startTod),
     end_time |-> TimeText(endTod), is_active |-> active]
Period(creatorId, from, to) ==
    [creator_id |-> creatorId, start_datetime |-> from, end_datetime |-> to]

NoOverlapTest ==
    [currentSlot |-> 0, slotEnd |-> 0, otherStart |-> 0, otherEnd |-> 0,
     applied |-> FALSE, result |-> FALSE]

NoResponse ==
    [creatorSlug |-> NULL, serviceId |-> NULL, date |-> 0, at |-> 0,
     result |-> [status |-> 0, error |-> NULL, timeSlots |-> <<>>]]

\* The studio is open on Mondays 09:00-10:30 and may have taken Monday from
\* 10:30 off; no booking exists yet.
Init ==
    /\ overlapTest = NoOverlapTest
    /\ now = FlowStart
    /\ price = [id \in ServiceIds |-> Services[id].price]
    /\ availability = {Rule("c1", 1, 9 * 60, 10 * 60 + 30, TRUE)}
    /\ time_off \in {{}, {Period("c1", Instant(1, 10, 30), Instant(1, 12, 0))}}
    /\ bookings = <<>>
    /\ sessions = <<>>
    /\ req = [p \in Procs |-> IdleReq]
    /\ started = 0
    /\ response = NoResponse
    /\ clients = NoClients
    /\ NoFollowup

Next ==
    \/ \E p \in Procs, body \in RequestBodies : CB_Receive(p, body)
    \/ \E p \in Procs : CB_CheckConflicts(p)
    \/ \E p \in Procs : CB_CheckTimeOff(p)
    \/ \E p \in Procs : CB_Insert(p)
    \/ \E p \in Procs : CB_StripeCreate(p)
    \/ \E p \in Procs : CB_StripeFail(p)
    \/ \E p \in Procs : CB_Attach(p)
    \/ \E b \in BookingIds : WebhookCompleted(b)
    \/ \E b \in BookingIds : WebhookExpired(b)
    \/ \E b \in BookingIds : handleCancelBooking(b)
    \/ Tick

Spec == Init /\ [][Next]_vars


(***************************************************************************)
(* The life of a booking: requests, payment events, dashboard actions      *)
(***************************************************************************)
\* ServicesTab.handleSubmit on an existing service: the creator saves the
\* form with another price (title, description and duration as they were).
PriceChoices == {40, 45}
ServicesTab_handleSubmit(serviceId, newPrice) ==
    /\ Services[serviceId].creator_id = "c1"
    /\ newPrice # price[serviceId]
    /\ price' = [price EXCEPT ![serviceId] = newPrice]
    /\ UNCHANGED <<followupVars, clients, overlapTest, now, availability, time_off, bookings, sessions, req, started, response>>

\* The requests of this specification, served one at a time: two starts of
\* the 30-minute service, the first of them two hours after Monday 07:00.
LifeBodies ==
    {Body("studio", "s30", Instant(1, 9, 0), "ann@example.com"),
     Body("studio", "s30", Instant(1, 10, 0), "ann@example.com")}
LifeProcs == {"h1"}

NextLife ==
    \/ \E p \in LifeProcs, body \in LifeBodies : CB_Receive(p, body)
    \/ \E p \in LifeProcs : CB_CheckConflicts(p)
    \/ \E p \in LifeProcs : CB_CheckTimeOff(p)
    \/ \E p \in LifeProcs : CB_Insert(p)
    \/ \E p \in LifeProcs : CB_StripeCreate(p)
    \/ \E p \in LifeProcs : CB_StripeFail(p)
    \/ \E p \in LifeProcs : CB_Attach(p)
    \/ \E b \in BookingIds : WebhookCompleted(b)
    \/ \E b \in BookingIds : WebhookExpired(b)
    \/ \E b \in BookingIds : WebhookPaymentFailed(b)
    \/ \E b \in BookingIds : handleCancelBooking(b)
    \/ \E b \in BookingIds, newStatus \in {"accepted", "declined", "completed"} :
          handleStatusUpdate(b, newStatus)
    \/ \E newPrice \in PriceChoices : ServicesTab_handleSubmit("s30", newPrice)
    \/ Tick

SpecLife == Init /\ [][NextLife]_vars

\* The same steps under fairness: a request that was received runs to its
\* answer, and Stripe goes on delivering events for a checkout session it
\* created until none of them changes anything any more.
FairLife ==
    /\ \A p \in LifeProcs :
          WF_vars(\/ CB_CheckConflicts(p) \/ CB_CheckTimeOff(p) \/ CB_Insert(p)
                  \/ CB_StripeCreate(p) \/ CB_StripeFail(p) \/ CB_Attach(p))
    /\ \A b \in 1..MaxRequests :
          WF_vars(/\ b \in BookingIds
                  /\ \/ WebhookCompleted(b)
                     \/ WebhookPaymentFailed(b)
                     \/ WebhookExpired(b))

SpecLifeFair == Init /\ [][NextLife]_vars /\ FairLife


(***************************************************************************)
(* Two handlers and one start                                              *)
(***************************************************************************)
\* Requests for Monday 10:00, for the 30-minute and the 60-minute service.
PairBodies ==
    {Body("studio", "s30", Instant(1, 10, 0), "ann@example.com"),
     Body("studio", "s60", Instant(1, 10, 0), "ann@example.com")}

NextPair ==
    \/ \E p \in Procs, body \in PairBodies : CB_Receive(p, body)
    \/ \E p \in Procs : CB_CheckConflicts(p)
    \/ \E p \in Procs : CB_CheckTimeOff(p)
    \/ \E p \in Procs : CB_Insert(p)
    \/ \E p \in Procs : CB_StripeCreate(p)
    \/ \E p \in Procs : CB_StripeFail(p)
    \/ \E p \in Procs : CB_Attach(p)
    \/ \E b \in BookingIds : WebhookCompleted(b)
    \/ \E b \in BookingIds : WebhookExpired(b)
    \/ \E b \in BookingIds : handleCancelBooking(b)

SpecPair == Init /\ [][NextPair]_vars


(***************************************************************************)
(* Every kind of request, one at a time                                    *)
(***************************************************************************)
NextChecks ==
    \/ \E p \in LifeProcs, body \in RequestBodies : CB_Receive(p, body)
    \/ \E p \in LifeProcs : CB_CheckConflicts(p)
    \/ \E p \in LifeProcs : CB_CheckTimeOff(p)
    \/ \E p \in LifeProcs : CB_Insert(p)
    \/ \E p \in LifeProcs : CB_StripeCreate(p)
    \/ \E p \in LifeProcs : CB_StripeFail(p)
    \/ \E p \in LifeProcs : CB_Attach(p)
    \/ \E b \in BookingIds : handleCancelBooking(b)
    \/ Tick

SpecChecks == Init /\ [][NextChecks]_vars


(***************************************************************************)
(* Clients and their totals                                                *)
(***************************************************************************)
\* The people signed in to a dashboard: a client, and the studio's owner, who
\* also books her own service with her own address.
DashboardUsers ==
    {[uid |-> "u1", email |-> "ann@example.com"],
     [uid |-> "c1", email |-> "owner@example.com"]}

\* ClientDashboard.handleUpdateInfo: one UPDATE of client_name and
\* client_phone on the signed-in user's bookings from now on.  The policy
\* "Creators can update their own bookings" lets the statement see only rows
\* whose creator_id is the user's id; the trigger runs for every row it
\* updates.  Names and phone numbers are not part of the modelled row.
handleUpdateInfo(user) ==
    LET rows == {i \in BookingIds : /\ bookings[i].client_email = user.email
                                    /\ bookings[i].booking_date >= now
                                    /\ bookings[i].creator_id = user.uid}
    IN  /\ \A i \in rows : mayRepeat(bookings[i])
        /\ clients' = update_client_on_booking_paid(clients, rows, bookings)
        /\ UNCHANGED <<followupVars, overlapTest, price, now, availability, time_off,
                       bookings, sessions, req, started, response>>

\* The requests of this specification, served one at a time.
ClientBodies ==
    {Body("studio", "s30", Instant(1, 9, 0), "ann@example.com"),
     Body("studio", "s30", Instant(1, 10, 0), "ann@example.com"),
     Body("studio", "s30", Instant(1, 10, 0), "owner@example.com")}

NextClients ==
    \/ \E p \in LifeProcs, body \in ClientBodies : CB_Receive(p, body)
    \/ \E p \in LifeProcs : CB_CheckConflicts(p)
    \/ \E p \in LifeProcs : CB_CheckTimeOff(p)
    \/ \E p \in LifeProcs : CB_Insert(p)
    \/ \E p \in LifeProcs : CB_StripeCreate(p)
    \/ \E p \in LifeProcs : CB_StripeFail(p)
    \/ \E p \in LifeProcs : CB_Attach(p)
    \/ \E b \in BookingIds : WebhookCompleted(b)
    \/ \E b \in BookingIds : WebhookExpired(b)
    \/ \E b \in BookingIds : WebhookPaymentFailed(b)
    \/ \E b \in BookingIds : handleCancelBooking(b)
    \/ \E user \in DashboardUsers : handleUpdateInfo(user)

SpecClients == Init /\ [][NextClients]_vars


(***************************************************************************)
(* The slot generator over data snapshots                                  *)
(***************************************************************************)
\* Weekly rules of the studio: Sunday evening or closed; Monday morning with
\* two lengths, or switched off.
SundayRules == {{}, {Rule("c1", 0, 22 * 60, 23 * 60 + 45, TRUE)}}
MondayRules ==
    {{Rule("c1", 1, 9 * 60, 12 * 60, TRUE)},
     {Rule("c1", 1, 9 * 60, 11 * 60 + 15, TRUE)},
     {Rule("c1", 1, 9 * 60, 12 * 60, FALSE)}}

\* Time-off periods: Monday 10:00-14:00, Monday 00:00-08:00, and a short one
\* that touches the 09:00 and 09:45 candidates of the 30-minute service.
TimeOffChoices ==
    {Period("c1", Instant(1, 10, 0), Instant(1, 14, 0)),
     Period("c1", Instant(1, 0, 0), Instant(1, 8, 0)),
     Period("c1", Instant(1, 9, 30), Instant(1, 9, 45))}

\* Booking rows a snapshot may hold.
Row(serviceId, bookingStart, status, paymentStatus) ==
    [service_id |-> serviceId, creator_id |-> Services[serviceId].creator_id,
     booking_date |-> bookingStart, client_email |-> "ann@example.com",
     status |-> status, payment_status |-> paymentStatus,
     price_at_booking |-> Services[serviceId].price,
     stripe_checkout_session_id |-> NoId,
     stripe_payment_intent_id |-> NoId]

SnapshotRows ==
    {Row(sb[1], sb[2], st[1], st[2]) :
        sb \in {<<"s60", Instant(1, 9, 45)>>, <<"s30", Instant(1, 9, 45)>>,
                <<"s60", Instant(0, 23, 15)>>, <<"s30", Instant(1, 10, 30)>>},
        st \in {<<"pending", "pending">>, <<"confirmed", "paid">>,
                <<"cancelled", "unpaid">>}}
    \cup {Row("s60", Instant(1, 9, 45), "confirmed", "refunded"),
          Row("sRiv", Instant(1, 9, 45), "confirmed", "paid"),
          Row("s30", Instant(1, 9, 45), "confirmed", "refunded"),
          Row("s30", Instant(1, 9, 45), "completed", "paid")}

RECURSIVE SeqsUpTo(_, _)
SeqsUpTo(S, n) ==
    IF n = 0 THEN {<<>>}
    ELSE LET shorter == SeqsUpTo(S, n - 1)
         IN  shorter \cup {Append(q, x) : q \in shorter, x \in S}

NowChoices ==
    {Instant(0, 12, 0), Instant(1, 7, 0), Instant(1, 8, 0), Instant(1, 10, 0)}

Dates == {0, 1}     \* Sunday and Monday of the modelled week

InitSlots ==
    /\ overlapTest = NoOverlapTest
    /\ now \in NowChoices
    /\ price = [id \in ServiceIds |-> Services[id].price]
    /\ \E su \in SundayRules, mo \in MondayRules : availability = su \cup mo
    /\ time_off \in {T \in SUBSET TimeOffChoices : Cardinality(T) <= MaxTimeOff}
    /\ bookings \in SeqsUpTo(SnapshotRows, MaxSnapshotBookings)
    /\ sessions = [i \in 1..Len(bookings) |-> "none"]
    /\ req = [p \in Procs |-> IdleReq]
    /\ started = 0
    /\ response = NoResponse
    /\ clients = NoClients
    /\ NoFollowup

NextSlots ==
    \E creatorSlug \in {"studio", "nobody"}, serviceId \in ServiceIds, date \in Dates :
        GetAvailableSlots(creatorSlug, serviceId, date)

SpecSlots == InitSlots /\ [][NextSlots]_vars


(***************************************************************************)
(* The generator's overlap test on its own                                 *)
(***************************************************************************)
\* The instants the two intervals' ends are drawn from: 0..MaxPoint.
MaxPoint == 4

\* The expression of hasConflict / inTimeOff evaluated on the drawn intervals.
ApplySlotOverlaps ==
    /\ ~overlapTest.applied
    /\ overlapTest' =
          [overlapTest EXCEPT
             !.applied = TRUE,
             !.result = slotOverlaps(overlapTest.currentSlot, overlapTest.slotEnd,
                                     overlapTest.otherStart, overlapTest.otherEnd)]
    /\ UNCHANGED <<followupVars, clients, price, now, availability, time_off, bookings, sessions, req,
                   started, response>>

InitOverlap ==
    /\ \E a \in 0..MaxPoint, b \in 0..MaxPoint, c \in 0..MaxPoint, d \in 0..MaxPoint :
          overlapTest = [NoOverlapTest EXCEPT !.currentSlot = a, !.slotEnd = b,
                                              !.otherStart = c, !.otherEnd = d]
    /\ now = FlowStart
    /\ price = [id \in ServiceIds |-> Services[id].price]
    /\ availability = {}
    /\ time_off = {}
    /\ bookings = <<>>
    /\ sessions = <<>>
    /\ req = [p \in Procs |-> IdleReq]
    /\ started = 0
    /\ response = NoResponse
    /\ clients = NoClients
    /\ NoFollowup

NextOverlap == ApplySlotOverlaps

SpecOverlap == InitOverlap /\ [][NextOverlap]_vars


(***************************************************************************)
(* The creator's time-off tab                                              *)
(***************************************************************************)
\* The number of time_off rows the creator keeps at once.
MaxStoredTimeOff == 2

\* The values the two datetime-local inputs of the form may hold.
TimeOffInstants ==
    {Instant(1, 8, 0), Instant(1, 10, 0), Instant(1, 12, 0), Instant(1, 14, 0)}

\* TimeOffTab.handleSubmit: with an input left empty the handler only shows
\* an error; otherwise it inserts the row as typed.
TimeOffTab_handleSubmit(filled, startDatetime, endDatetime) ==
    /\ Cardinality(time_off) < MaxStoredTimeOff
    /\ time_off' = IF filled
                   THEN time_off \cup {Period("c1", startDatetime, endDatetime)}
                   ELSE time_off
    /\ UNCHANGED <<followupVars, clients, overlapTest, price, now, availability, bookings, sessions, req,
                   started, response>>

\* TimeOffTab.handleDelete.
TimeOffTab_handleDelete(period) ==
    /\ period \in time_off
    /\ time_off' = time_off \ {period}
    /\ UNCHANGED <<followupVars, clients, overlapTest, price, now, availability, bookings, sessions, req,
                   started, response>>

InitTimeOff ==
    /\ overlapTest = NoOverlapTest
    /\ now = FlowStart
    /\ price = [id \in ServiceIds |-> Services[id].price]
    /\ availability = {Rule("c1", 1, 9 * 60, 12 * 60, TRUE)}
    /\ time_off = {}
    /\ bookings = <<>>
    /\ sessions = <<>>
    /\ req = [p \in Procs |-> IdleReq]
    /\ started = 0
    /\ response = NoResponse
    /\ clients = NoClients
    /\ NoFollowup

NextTimeOff ==
    \/ \E filled \in BOOLEAN, startDatetime \in TimeOffInstants,
          endDatetime \in TimeOffInstants :
          TimeOffTab_handleSubmit(filled, startDatetime, endDatetime)
    \/ \E period \in time_off : TimeOffTab_handleDelete(period)

SpecTimeOff == InitTimeOff /\ [][NextTimeOff]_vars


(***************************************************************************)
(* booking-followup                                                        *)
(***************************************************************************)
MaxInvocations == 2     \* booking-followup invocations received

\* The query of lines 29-41: the completed bookings of the last 24 hours.
completedBookings ==
    SelectSeq([i \in 1..Len(bookings) |-> i],
              LAMBDA i : /\ bookings[i].status = "completed"
                         /\ bookings[i].booking_date >= now - 24 * 60
                         /\ bookings[i].booking_date <= now)

\* The notification an invocation is at: its booking and type.
notificationOf(i) == <<Head(inv[i].todo), inv[i].type>>

\* The invocation after it is through with a notification: the review request
\* of the same booking follows its follow-up, the next booking of the loop
\* follows the review request, the response follows the last booking.
afterNotification(v) ==
    IF v.type = "followup"
    THEN [v EXCEPT !.pc = "check", !.type = "review_request"]
    ELSE [v EXCEPT !.pc = IF Tail(v.todo) = <<>> THEN "respond" ELSE "check",
                   !.todo = Tail(v.todo), !.type = "followup"]

\* An invocation is received and reads the bookings to follow up.
FU_Receive(i) ==
    /\ inv[i].pc = "idle"
    /\ invocations < MaxInvocations
    /\ invocations' = invocations + 1
    /\ inv' = [inv EXCEPT ![i] =
                 [pc |-> IF completedBookings = <<>> THEN "respond" ELSE "check",
                  todo |-> completedBookings, type |-> "followup"]]
    /\ UNCHANGED <<notifications_sent, emails, clients, overlapTest, price, now,
                   availability, time_off, bookings, sessions, req, started, response>>

\* "Check if followup already sent" / "Check if review request already sent".
FU_Check(i) ==
    /\ inv[i].pc = "check"
    /\ inv' = [inv EXCEPT ![i] =
                 IF notificationOf(i) \in notifications_sent
                 THEN afterNotification(inv[i])
                 ELSE [inv[i] EXCEPT !.pc = "send"]]
    /\ UNCHANGED <<notifications_sent, emails, invocations, clients, overlapTest, price,
                   now, availability, time_off, bookings, sessions, req, started, response>>

\* resend.emails.send.
FU_Send(i) ==
    /\ inv[i].pc = "send"
    /\ emails' = [k \in DOMAIN emails \cup {notificationOf(i)} |->
                    IF k # notificationOf(i) THEN emails[k]
                    ELSE IF k \in DOMAIN emails THEN emails[k] + 1 ELSE 1]
    /\ inv' = [inv EXCEPT ![i] = [@ EXCEPT !.pc = "mark"]]
    /\ UNCHANGED <<notifications_sent, invocations, clients, overlapTest, price, now,
                   availability, time_off, bookings, sessions, req, started, response>>

\* "Mark as sent": the insert into notifications_sent.  UNIQUE(booking_id,
\* notification_type) rejects a second row for the notification; the insert's
\* result is not read.
FU_Mark(i) ==
    /\ inv[i].pc = "mark"
    /\ notifications_sent' = notifications_sent \cup {notificationOf(i)}
    /\ inv' = [inv EXCEPT ![i] = afterNotification(inv[i])]
    /\ UNCHANGED <<emails, invocations, clients, overlapTest, price, now,
                   availability, time_off, bookings, sessions, req, started, response>>

\* The response of the invocation.
FU_Respond(i) ==
    /\ inv[i].pc = "respond"
    /\ inv' = [inv EXCEPT ![i] = IdleInv]
    /\ UNCHANGED <<notifications_sent, emails, invocations, clients, overlapTest, price,
                   now, availability, time_off, bookings, sessions, req, started, response>>

\* Monday noon.  The studio's bookings: one of this morning and perhaps one of
\* last night, marked completed with the creator's button while the status
\* constraint still had 'accepted', or a confirmed one only.
FollowupTables ==
    {<<Row("s30", Instant(1, 9, 45), "completed", "paid")>>,
     <<Row("s30", Instant(1, 9, 45), "completed", "paid"),
       Row("s60", Instant(0, 23, 15), "completed", "paid")>>,
     <<Row("s30", Instant(1, 9, 45), "confirmed", "paid")>>}

InitFollowup ==
    /\ overlapTest = NoOverlapTest
    /\ now = Instant(1, 12, 0)
    /\ price = [id \in ServiceIds |-> Services[id].price]
    /\ availability = {Rule("c1", 1, 9 * 60, 12 * 60, TRUE)}
    /\ time_off = {}
    /\ bookings \in FollowupTables
    /\ sessions = [i \in 1..Len(bookings) |-> "none"]
    /\ req = [p \in Procs |-> IdleReq]
    /\ started = 0
    /\ response = NoResponse
    /\ clients = NoClients
    /\ NoFollowup

NextFollowup ==
    \/ \E i \in Invs : FU_Receive(i)
    \/ \E i \in Invs : FU_Check(i)
    \/ \E i \in Invs : FU_Send(i)
    \/ \E i \in Invs : FU_Mark(i)
    \/ \E i \in Invs : FU_Respond(i)

SpecFollowup == InitFollowup /\ [][NextFollowup]_vars


(***************************************************************************)
(* Properties                                                              *)
(***************************************************************************)
\* The half-open overlap of [aStart, aEnd) and [bStart, bEnd).
overlaps(aStart, aEnd, bStart, bEnd) == aStart < bEnd /\ aEnd > bStart

\* The occupied interval of a booking row ends after the duration of the
\* row's own service and the buffer.
occupiedEnd(b) == b.booking_date + Services[b.service_id].duration + BUFFER_MINUTES

\* The slots of the last get-available-slots response and its creator.
Slots == response.result.timeSlots
SlotSet == {Slots[k] : k \in DOMAIN Slots}
ResponseCreator == profileOf(response.creatorSlug)

\* The stride candidates of the last response's request: for the active rules
\* of the day, ruleStart + k * (duration + buffer) while before the rule's end.
RuleStartOf(a, date) ==
    DateOf(date) + splitHourMinute(a.start_time)[1] * 60 + splitHourMinute(a.start_time)[2]
RuleEndOf(a, date) ==
    DateOf(date) + splitHourMinute(a.end_time)[1] * 60 + splitHourMinute(a.end_time)[2]
Candidates ==
    IF response.result.status # 200 THEN {}
    ELSE LET d == Services[response.serviceId].duration
             rules == availabilityFor(ResponseCreator, getDay(DateOf(response.date)))
             startsOf(a) ==
                 {RuleStartOf(a, response.date) + k * (d + BUFFER_MINUTES) :
                    k \in 0..((RuleEndOf(a, response.date) - RuleStartOf(a, response.date))
                              \div (d + BUFFER_MINUTES))}
         IN  {[start |-> t, end |-> t + d] :
                t \in {u \in UNION {startsOf(a) : a \in rules} :
                        \E a \in rules : u \in startsOf(a) /\ u < RuleEndOf(a, response.date)}}

\* C10: no slot returned by the generator ends at or before now + 2 hours, and
\* when every stride candidate ends at or before now + 2 hours the result is
\* the empty sequence.
C10_NoSlotWithinLeadTime ==
    LET minStartInstant == response.at + MINIMUM_LEAD_TIME_HOURS * 60
    IN  /\ \A s \in SlotSet : ~(s.end <= minStartInstant)
        /\ (\A c \in Candidates : c.end <= minStartInstant) => Slots = <<>>

\* A response that returned slots although an earlier candidate of the same
\* rule was too soon.
C10_Witness ==
    /\ Slots # <<>>
    /\ \E c \in Candidates : c.end <= response.at + MINIMUM_LEAD_TIME_HOURS * 60


\* C11: every slot returned by the generator is exactly as long as the
\* requested service's duration; the buffer is no part of the slot.
C11_SlotLengthIsDuration ==
    \A s \in SlotSet : s.end - s.start = Services[response.serviceId].duration

\* A response holding two consecutive slots of the 60-minute service, whose
\* starts are a stride (duration plus buffer) apart.
C11_Witness ==
    /\ response.serviceId = "s60"
    /\ Len(Slots) >= 2
    /\ Slots[2].start - Slots[1].start = Services["s60"].duration + BUFFER_MINUTES


\* A booking holds its slot: pending or confirmed, and not refunded.
HoldsSlot(b) == b.status \in {"pending", "confirmed"} /\ b.payment_status # "refunded"

\* The bookings of the last response's creator and service that start at a
\* stride candidate of the response.
RowsAtCandidates ==
    {i \in BookingIds :
        /\ bookings[i].creator_id = ResponseCreator
        /\ bookings[i].service_id = response.serviceId
        /\ \E c \in Candidates : c.start = bookings[i].booking_date}

\* C17: a booking that holds its slot keeps the generator from offering the
\* slot and makes the validator's conflict check fail for its start; when no
\* booking of the creator holds a slot, bookings keep no candidate out of the
\* response and the conflict check passes.
C17_OccupyingExactly ==
    /\ \A i \in RowsAtCandidates :
          LET r == Body(response.creatorSlug, response.serviceId,
                        bookings[i].booking_date, "ann@example.com")
          IN  /\ HoldsSlot(bookings[i])
                 => /\ \A s \in SlotSet : s.start # bookings[i].booking_date
                    /\ errorKind(conflictCheck(r)) = "Conflict"
              /\ (\A j \in BookingIds :
                      bookings[j].creator_id = ResponseCreator => ~HoldsSlot(bookings[j]))
                 => conflictCheck(r) = NULL
    /\ (\A j \in BookingIds :
            bookings[j].creator_id = ResponseCreator => ~HoldsSlot(bookings[j]))
       => \A c \in Candidates :
             ( /\ c.end > response.at + MINIMUM_LEAD_TIME_HOURS * 60
               /\ \A period \in time_off : period.creator_id # ResponseCreator )
             => c \in SlotSet

\* The slot of a completed or refunded booking is offered again.
C17_Witness ==
    \E i \in RowsAtCandidates :
        /\ \/ bookings[i].status = "completed"
           \/ bookings[i].payment_status = "refunded"
        /\ \E s \in SlotSet : s.start = bookings[i].booking_date


\* C18: on two non-empty intervals the generator's three-clause test gives
\* the result of the half-open test aStart < bEnd /\ aEnd > bStart: FALSE on
\* touching intervals [a, a+1), [a+1, a+2) and TRUE on [a, a+2), [a+1, a+3).
C18_ThreeClauseIsHalfOpen ==
    LET t == overlapTest
    IN  ( /\ t.applied
          /\ t.currentSlot < t.slotEnd
          /\ t.otherStart < t.otherEnd )
        => /\ t.result = overlaps(t.currentSlot, t.slotEnd, t.otherStart, t.otherEnd)
           /\ (t.slotEnd = t.otherStart \/ t.otherEnd = t.currentSlot) => ~t.result
           /\ ( /\ t.slotEnd = t.currentSlot + 2
                /\ t.otherStart = t.currentSlot + 1
                /\ t.otherEnd = t.currentSlot + 3 ) => t.result

\* The test was applied to [1, 2) and [2, 3), which touch, and said no.
C18_Witness ==
    /\ overlapTest.applied
    /\ overlapTest.currentSlot = 1 /\ overlapTest.slotEnd = 2
    /\ overlapTest.otherStart = 2 /\ overlapTest.otherEnd = 3
    /\ ~overlapTest.result


\* Scenario A: the studio's only rule is Monday 09:00-12:00, active; there is
\* no booking and no time off; the clock is more than two hours before
\* Monday 00:00; the last request asked for the 30-minute service on Monday.
ScenarioA ==
    /\ response.creatorSlug = "studio"
    /\ response.serviceId = "s30"
    /\ response.date = 1
    /\ availability = {Rule("c1", 1, 9 * 60, 12 * 60, TRUE)}
    /\ bookings = <<>>
    /\ time_off = {}
    /\ response.at + MINIMUM_LEAD_TIME_HOURS * 60 < DateOf(1)

\* C20: in Scenario A the generator returns exactly the four slots that
\* start at 09:00, 09:45, 10:30 and 11:15, each 30 minutes long, in that
\* order.
C20_ScenarioA ==
    ScenarioA
    => Slots = <<[start |-> Instant(1, 9, 0), end |-> Instant(1, 9, 30)],
                 [start |-> Instant(1, 9, 45), end |-> Instant(1, 10, 15)],
                 [start |-> Instant(1, 10, 30), end |-> Instant(1, 11, 0)],
                 [start |-> Instant(1, 11, 15), end |-> Instant(1, 11, 45)]>>

\* Scenario A was requested and answered with four slots.
C20_Witness == ScenarioA /\ response.result.status = 200 /\ Len(Slots) = 4


\* Scenario B: Scenario A's rule, service, date and clock, with one confirmed
\* booking of the 30-minute service at Monday 09:45.
ScenarioB ==
    /\ response.creatorSlug = "studio"
    /\ response.serviceId = "s30"
    /\ response.date = 1
    /\ availability = {Rule("c1", 1, 9 * 60, 12 * 60, TRUE)}
    /\ bookings = <<Row("s30", Instant(1, 9, 45), "confirmed", "paid")>>
    /\ time_off = {}
    /\ response.at + MINIMUM_LEAD_TIME_HOURS * 60 < DateOf(1)

\* C21: in Scenario B the generator returns 09:00, 10:30 and 11:15 and not
\* 09:45; and whenever the only booking holds its slot, is of the requested
\* service and starts at a stride candidate, with no time off, the response
\* is the candidates that are not too soon less the one with that start.
C21_ScenarioB ==
    /\ ScenarioB
       => Slots = <<[start |-> Instant(1, 9, 0), end |-> Instant(1, 9, 30)],
                    [start |-> Instant(1, 10, 30), end |-> Instant(1, 11, 0)],
                    [start |-> Instant(1, 11, 15), end |-> Instant(1, 11, 45)]>>
    /\ ( /\ Len(bookings) = 1
         /\ RowsAtCandidates = {1}
         /\ HoldsSlot(bookings[1])
         /\ time_off = {} )
       => SlotSet = {c \in Candidates :
                       /\ c.end > response.at + MINIMUM_LEAD_TIME_HOURS * 60
                       /\ c.start # bookings[1].booking_date}

\* Scenario B was requested and answered with three slots.
C21_Witness == ScenarioB /\ response.result.status = 200 /\ Len(Slots) = 3


\* C22: every stored time-off period starts before it ends.
C22_TimeOffStartBeforeEnd ==
    \A period \in time_off : period.start_datetime < period.end_datetime


\* A stride candidate is feasible: it ends after now + 2 hours, overlaps the
\* occupied interval of no occupying booking of the creator, and overlaps no
\* time-off period of the creator.
Feasible(c) ==
    /\ c.end > response.at + MINIMUM_LEAD_TIME_HOURS * 60
    /\ \A i \in BookingIds :
          (bookings[i].creator_id = ResponseCreator /\ HoldsSlot(bookings[i]))
          => ~overlaps(c.start, c.end, bookings[i].booking_date, occupiedEnd(bookings[i]))
    /\ \A period \in time_off :
          period.creator_id = ResponseCreator
          => ~overlaps(c.start, c.end, period.start_datetime, period.end_datetime)

\* C23: the generator returns exactly the feasible stride candidates.
C23_ExactlyFeasibleCandidates ==
    response.result.status = 200 => SlotSet = {c \in Candidates : Feasible(c)}


\* A committed booking of the request's creator holds the request's start.
StartHeld(r) ==
    \E i \in BookingIds :
        /\ bookings[i].creator_id = profileOf(r.creatorSlug)
        /\ HoldsSlot(bookings[i])
        /\ bookings[i].booking_date = r.bookingStart

\* C24: a request that reads the occupying bookings while a committed booking
\* of its creator holds the same start fails with Conflict and inserts no
\* row.
C24_SameStartConflicts ==
    [][\A p \in Procs :
          (req[p].pc = "conflicts" /\ req'[p].pc # "conflicts" /\ StartHeld(req[p]))
          => /\ req'[p].pc = "done"
             /\ errorKind(req'[p].error) = "Conflict"
             /\ bookings' = bookings]_vars

\* A request for the 60-minute service was refused with Conflict while a
\* booking of the 30-minute service holds the same start.
C24_Witness ==
    \E p \in Procs :
        /\ req[p].pc = "done"
        /\ req[p].serviceId = "s60"
        /\ req[p].error = "This time slot is no longer available"
        /\ req[p].bookingId = 0
        /\ \E i \in BookingIds :
              /\ bookings[i].service_id = "s30"
              /\ HoldsSlot(bookings[i])
              /\ bookings[i].booking_date = req[p].bookingStart


\* The request's window [start, start + duration) overlaps, half-open, a
\* time-off period of its creator.
OverlapsTimeOff(r) ==
    \E period \in time_off :
        /\ period.creator_id = profileOf(r.creatorSlug)
        /\ overlaps(r.bookingStart, r.bookingStart + Services[r.serviceId].duration,
                    period.start_datetime, period.end_datetime)

\* C25: a request that runs its time-off check is rejected by it exactly
\* when its window overlaps, half-open, a time-off period of the creator; a
\* window that only touches a period passes.
C25_TimeOffHalfOpen ==
    [][\A p \in Procs :
          (req[p].pc = "timeoff" /\ req'[p].pc # "timeoff")
          => (errorKind(req'[p].error) = "Conflict" <=> OverlapsTimeOff(req[p]))]_vars


\* The request was refused by one of its checks.
Refused(r) ==
    /\ r.pc = "done"
    /\ \/ r.error = "Missing required fields"
       \/ errorKind(r.error) \in {"NotFound", "LeadTimeViolation",
                                   "OutsideAvailability", "Conflict"}

\* C26: the step in which a request is refused by a check changes no booking
\* row and creates no checkout session, and the refused request has inserted
\* no row; a row is inserted only by a request that is past all its checks.
C26_RefusedChangesNothing ==
    [][\A p \in Procs :
          /\ (req'[p] # req[p] /\ Refused(req'[p]))
             => /\ bookings' = bookings
                /\ sessions' = sessions
                /\ req'[p].bookingId = 0
          /\ Len(bookings') > Len(bookings)
             => \E q \in Procs : req[q].pc = "insert" /\ req'[q].pc = "stripe"]_vars

\* After a request stored a booking, a later request was refused for a
\* conflict: there is still one row and one session entry.
C26_Witness ==
    \E p \in Procs :
        /\ Refused(req[p])
        /\ errorKind(req[p].error) = "Conflict"
        /\ req[p].bookingId = 0
        /\ Len(bookings) = 1
        /\ Len(sessions) = 1
        /\ started > 1


\* C27: a booking whose status is cancelled stays cancelled in every step.
C27_CancelledIsTerminal ==
    [][\A b \in BookingIds :
          bookings[b].status = "cancelled" => bookings'[b].status = "cancelled"]_vars


\* Booking b is paid for, or has released its slot as unpaid.
Settled(b) ==
    /\ b \in BookingIds
    /\ \/ bookings[b].status = "confirmed" /\ bookings[b].payment_status = "paid"
       \/ bookings[b].status = "cancelled" /\ bookings[b].payment_status = "unpaid"

\* C28: every booking row that is pending/pending is eventually confirmed and
\* paid, or cancelled and unpaid.
C28_PendingResolves ==
    \A b \in 1..MaxRequests :
        (b \in BookingIds /\ bookings[b].status = "pending"
                          /\ bookings[b].payment_status = "pending")
        ~> Settled(b)


\* The (creator, client email) pairs of the modelled requests, a pair's
\* bookings that are confirmed and paid, and the sum of their prices.
ClientKeys == {<<"c1", "ann@example.com">>, <<"c1", "owner@example.com">>}
paidBookingsOf(k) ==
    {i \in BookingIds : /\ clientKey(bookings[i]) = k
                        /\ bookings[i].status = "confirmed"
                        /\ bookings[i].payment_status = "paid"}
RECURSIVE sumOfPrices(_)
sumOfPrices(ids) ==
    IF ids = {} THEN 0
    ELSE LET i == CHOOSE x \in ids : TRUE
         IN  bookings[i].price_at_booking + sumOfPrices(ids \ {i})

\* C29: for every (creator, client email), the clients row counts exactly the
\* client's bookings that reached confirmed/paid, and its total_spent is the
\* sum of their price_at_booking (no row yet: no such booking).  A row that
\* is confirmed and paid stays so under every step of the flow, so the
\* bookings that reached confirmed/paid are those that are.
C29_ClientTotals ==
    \A k \in ClientKeys :
        IF k \in DOMAIN clients
        THEN /\ clients[k].total_bookings = Cardinality(paidBookingsOf(k))
             /\ clients[k].total_spent = sumOfPrices(paidBookingsOf(k))
        ELSE paidBookingsOf(k) = {}


\* C30: whatever the invocations of booking-followup and their interleaving,
\* no booking gets more than one follow-up email nor more than one
\* review-request email.
C30_AtMostOneEmailPerType ==
    \A k \in DOMAIN emails : emails[k] <= 1


\* The booking row a finished request created, and whether it is still as
\* inserted.
Succeeded(p) == req[p].pc = "done" /\ req[p].error = NULL
StillPending(id) ==
    bookings[id].status = "pending" /\ bookings[id].payment_status = "pending"

\* A request that, taken alone, passes every check other than the overlap
\* with existing bookings.
FeasibleAlone(r) == firstChecks(r) = NULL /\ timeOffCheck(r) = NULL

\* C1: of two requests for the same creator and the same start, each feasible
\* alone, that both ran while the other's booking (if any) stayed pending,
\* exactly one succeeds and the other fails with Conflict.
C1_ExactlyOneSucceeds ==
    \A p \in Procs : \A q \in Procs \ {p} :
        ( /\ Succeeded(p)
          /\ StillPending(req[p].bookingId)
          /\ req[q].pc = "done"
          /\ req[q].creatorSlug = req[p].creatorSlug
          /\ req[q].bookingStart = req[p].bookingStart
          /\ FeasibleAlone(req[q])
          /\ req[q].error # "Stripe error"
          /\ (req[q].bookingId # 0 => StillPending(req[q].bookingId)) )
        => errorKind(req[q].error) = "Conflict"

\* A request whose required fields are present and whose creator and service
\* were found: it reaches the lead-time check.
Resolved(r) ==
    /\ r.clientEmail # ""
    /\ profileOf(r.creatorSlug) # NULL
    /\ serviceOf(r.serviceId, profileOf(r.creatorSlug)) # NoRow

\* C12: a request that reaches the lead-time check fails with
\* LeadTimeViolation, creating no booking row, when its proposed start is at
\* or before now + 2 hours, and never fails with LeadTimeViolation when its
\* proposed start is later than that.
C12_LeadTime ==
    [][\A p \in Procs :
          (req[p].pc \in {"idle", "done"} /\ req'[p] # req[p] /\ Resolved(req'[p]))
          => /\ errorKind(req'[p].error) = "LeadTimeViolation"
                <=> req'[p].bookingStart <= now + MINIMUM_LEAD_TIME_HOURS * 60
             /\ errorKind(req'[p].error) = "LeadTimeViolation"
                => (req'[p].pc = "done" /\ req'[p].bookingId = 0 /\ bookings' = bookings)]_vars

\* A request for a start exactly two hours ahead was rejected for lead time,
\* after a request for a later start had got through to its checkout session.
C12_Witness ==
    \E p \in Procs :
        /\ req[p].pc = "done"
        /\ errorKind(req[p].error) = "LeadTimeViolation"
        /\ req[p].bookingStart = now + MINIMUM_LEAD_TIME_HOURS * 60
        /\ \E i \in BookingIds :
              /\ bookings[i].booking_date > req[p].bookingStart
              /\ bookings[i].stripe_checkout_session_id # NoId

\* The step by which handler p inserts its booking row.
InsertStep(p) == req[p].pc = "insert" /\ req'[p].pc = "stripe"

\* C13: the insert of a request appends exactly one row, pending/pending,
\* whose price_at_booking is the service price the request read; no other
\* step adds or removes a row, and no step (a later price edit included)
\* changes the price_at_booking of an existing row.
C13_PriceSnapshot ==
    [][/\ \A p \in Procs :
            InsertStep(p)
            => /\ Len(bookings') = Len(bookings) + 1
               /\ bookings'[Len(bookings')].status = "pending"
               /\ bookings'[Len(bookings')].payment_status = "pending"
               /\ bookings'[Len(bookings')].price_at_booking = req[p].price
               /\ req'[p].bookingId = Len(bookings')
       /\ (\A p \in Procs : ~InsertStep(p)) => Len(bookings') = Len(bookings)
       /\ \A i \in BookingIds :
            bookings'[i].price_at_booking = bookings[i].price_at_booking]_vars

\* One successful request's booking keeps the first price although the
\* service's price was edited afterwards; another request, made after the
\* edit, stored the edited price.
C13_Witness ==
    \E i \in BookingIds : \E j \in BookingIds :
        /\ bookings[i].stripe_checkout_session_id # NoId
        /\ bookings[i].price_at_booking = Services["s30"].price
        /\ price["s30"] # Services["s30"].price
        /\ bookings[j].stripe_checkout_session_id # NoId
        /\ bookings[j].price_at_booking = price["s30"]

\* C14: when payment initiation fails after the insert, the request answers
\* with an error and changes no booking row, so its row is neither deleted nor
\* cancelled by it; the row of such a request never gets a checkout-session
\* or payment-intent id, and stays pending/pending until another operation
\* updates it.
C14_PaymentInitiationFailure ==
    [][\A p \in Procs :
          /\ (req[p].pc = "stripe" /\ req'[p].pc = "done")
             => /\ req'[p].error # NULL
                /\ bookings' = bookings
                /\ req'[p].bookingId \in BookingIds
          /\ (req[p].pc = "done" /\ req[p].error = "Stripe error" /\ req'[p] = req[p])
             => /\ bookings'[req[p].bookingId].stripe_checkout_session_id = NoId
                /\ bookings'[req[p].bookingId].stripe_payment_intent_id = NoId
                /\ sessions'[req[p].bookingId] = "none"
                /\ bookings'[req[p].bookingId] # bookings[req[p].bookingId]
                   => ~(\E q \in Procs : req'[q] # req[q])]_vars

\* A request answered with the payment error; its row is still as inserted.
C14_Witness ==
    \E p \in Procs :
        /\ req[p].pc = "done"
        /\ req[p].error = "Stripe error"
        /\ StillPending(req[p].bookingId)
        /\ bookings[req[p].bookingId].stripe_checkout_session_id = NoId
        /\ bookings[req[p].bookingId].stripe_payment_intent_id = NoId

\* C15: a booking's status becomes confirmed, or its payment status paid,
\* only in a step that delivers checkout.session.completed for that booking;
\* a row is never inserted as confirmed or paid.
C15_OnlyCompletedConfirms ==
    [][/\ \A b \in BookingIds :
            ( \/ bookings'[b].status = "confirmed" /\ bookings[b].status # "confirmed"
              \/ bookings'[b].payment_status = "paid" /\ bookings[b].payment_status # "paid" )
            => (sessions[b] \in {"open", "failed"} /\ sessions'[b] = "completed")
       /\ \A b \in (1..Len(bookings')) \ BookingIds :
            bookings'[b].status # "confirmed" /\ bookings'[b].payment_status # "paid"]_vars

\* One booking was confirmed and paid by the webhook while another one is
\* cancelled and unpaid.
C15_Witness ==
    \E b \in BookingIds : \E c \in BookingIds :
        /\ bookings[b].status = "confirmed"
        /\ bookings[b].payment_status = "paid"
        /\ sessions[b] = "completed"
        /\ bookings[c].status = "cancelled"
        /\ bookings[c].payment_status = "unpaid"

\* C16: the delivery of checkout.session.completed for a booking leaves it
\* confirmed and paid; the delivery of payment_intent.payment_failed or of
\* checkout.session.expired leaves it cancelled and unpaid; in each case the
\* other rows stay as they were.
C16_WebhookEffects ==
    [][\A b \in BookingIds :
          LET others == \A i \in BookingIds \ {b} : bookings'[i] = bookings[i]
          IN  /\ (sessions[b] # "completed" /\ sessions'[b] = "completed")
                 => /\ bookings'[b].status = "confirmed"
                    /\ bookings'[b].payment_status = "paid"
                    /\ others
              /\ ( \/ sessions[b] # "failed" /\ sessions'[b] = "failed"
                   \/ sessions[b] # "expired" /\ sessions'[b] = "expired" )
                 => /\ bookings'[b].status = "cancelled"
                    /\ bookings'[b].payment_status = "unpaid"
                    /\ others]_vars

\* C2: no two occupying bookings of one creator have overlapping occupied
\* intervals [start, start + duration + buffer).
C2_NoOverlappingOccupied ==
    \A i \in BookingIds, j \in BookingIds :
        ( /\ i # j
          /\ bookings[i].creator_id = bookings[j].creator_id
          /\ isOccupying(bookings[i])
          /\ isOccupying(bookings[j]) )
        => ~overlaps(bookings[i].booking_date, occupiedEnd(bookings[i]),
                     bookings[j].booking_date, occupiedEnd(bookings[j]))

\* A request's proposed window [start, start + duration) overlaps the occupied
\* interval of an occupying booking of its creator.
OverlapsOccupied(r) ==
    \E i \in BookingIds :
        /\ bookings[i].creator_id = profileOf(r.creatorSlug)
        /\ isOccupying(bookings[i])
        /\ overlaps(r.bookingStart, r.bookingStart + Services[r.serviceId].duration,
                    bookings[i].booking_date, occupiedEnd(bookings[i]))

\* C3: whenever a request runs its conflict check while its proposed window
\* overlaps the occupied interval of an occupying booking, it fails with
\* Conflict.
C3_ConflictOnOverlap ==
    [][\A p \in Procs :
          (req[p].pc = "conflicts" /\ req'[p].pc # "conflicts" /\ OverlapsOccupied(req[p]))
          => (req'[p].pc = "done" /\ errorKind(req'[p].error) = "Conflict")]_vars

\* C4: no slot returned by the generator overlaps the occupied interval of an
\* occupying booking of the creator.
C4_SlotsAvoidOccupied ==
    \A s \in SlotSet, i \in BookingIds :
        (bookings[i].creator_id = ResponseCreator /\ isOccupying(bookings[i]))
        => ~overlaps(s.start, s.end, bookings[i].booking_date, occupiedEnd(bookings[i]))

\* C5: on the same snapshot and clock, the validator raises none of
\* LeadTimeViolation, OutsideAvailability or Conflict for the start of a slot
\* the generator returned.
C5_SlotsAreAccepted ==
    \A s \in SlotSet :
        errorKind(validate(Body(response.creatorSlug, response.serviceId, s.start,
                                "ann@example.com")))
            \notin {"LeadTimeViolation", "OutsideAvailability", "Conflict"}

\* C6: every slot returned lies within a rule of the day:
\* ruleStart <= slot.start and slot.end <= ruleEnd.
C6_SlotsWithinRule ==
    \A s \in SlotSet :
        \E a \in availabilityFor(ResponseCreator, getDay(DateOf(response.date))) :
            /\ RuleStartOf(a, response.date) <= s.start
            /\ s.end <= RuleEndOf(a, response.date)

\* The proposed start's time of day lies in [ruleStart, ruleEnd) of an active
\* rule of its day of the week.
InsideRule(r) ==
    \E a \in availabilityFor(profileOf(r.creatorSlug), getDay(r.bookingStart)) :
        LET tod == r.bookingStart % MinutesPerDay
            day == r.bookingStart \div MinutesPerDay
        IN  /\ RuleStartOf(a, day) - DateOf(day) <= tod
            /\ tod < RuleEndOf(a, day) - DateOf(day)

\* C7: a request that reaches the availability check fails with
\* OutsideAvailability exactly when no active rule of the day has
\* ruleStart <= proposedTimeOfDay < ruleEnd.
C7_AvailabilityCheck ==
    \A p \in Procs :
        ( /\ req[p].pc # "idle"
          /\ req[p].error # "Missing required fields"
          /\ errorKind(req[p].error) \notin {"NotFound", "LeadTimeViolation"} )
        => (errorKind(req[p].error) = "OutsideAvailability" <=> ~InsideRule(req[p]))

\* C8: a request for a service of the creator whose active flag is false
\* fails with NotFound, and no booking row is created for such a service.
C8_InactiveServiceNotBookable ==
    /\ \A p \in Procs :
          ( /\ req[p].pc = "done"
            /\ req[p].clientEmail # ""
            /\ profileOf(req[p].creatorSlug) # NULL
            /\ req[p].serviceId \in ServiceIds
            /\ Services[req[p].serviceId].creator_id = profileOf(req[p].creatorSlug)
            /\ ~Services[req[p].serviceId].active )
          => errorKind(req[p].error) = "NotFound"
    /\ \A i \in BookingIds : Services[bookings[i].service_id].active

\* C9: no slot returned by the generator overlaps a time-off period of the
\* creator.
C9_SlotsAvoidTimeOff ==
    \A s \in SlotSet, period \in time_off :
        period.creator_id = ResponseCreator
        => ~overlaps(s.start, s.end, period.start_datetime, period.end_datetime)


====
